---- MODULE Spec2Model ----
(***************************************************************************)
(* The download plugin of slackbot (src/slackbot/action/_download.py) and  *)
(* the download engine it drives (the package slackbot.action.download,    *)
(* whose ThreadGenerator, Report and ReportType the plugin imports).       *)
(*                                                                         *)
(* The plugin is translated from its source.  The engine's source is not   *)
(* part of the tree; its worker pool and workers are modelled from         *)
(* sections 3, 4.1, 4.2, 4.4, 5 and 7 of the specification.                *)
(*                                                                         *)
(* Spec is the plugin with its engine.  SpecTracker applies the progress   *)
(* tracker and _progress_message to one event, SpecText applies            *)
(* escape_text and unescape_text (src/slackbot/_action.py) to one string,  *)
(* and SpecTeam applies update and remove to a ChannelList                 *)
(* (src/slackbot/_team.py) that starts empty.                              *)
(***************************************************************************)
EXTENDS Integers, Sequences, FiniteSets, TLC

\* ---------------------------------------------------------------- bounds
MaxRequests == 2      \* requests admitted in one behaviour
MaxChunks == 1        \* chunks in the largest response body
MaxConcurrent == 1    \* largest configured max_concurrent
MaxBytes == 3         \* largest body the progress tracker is applied to
MaxLen == 4           \* longest string that is escaped

\* ------------------------------------------------------------- optionals
\* Python's Optional[T]: None is the empty tuple, a value v is <<v>>.
None == << >>
Some(v) == << v >>

\* ----------------------------------------------------------------- state
VARIABLES
    channels,        \* Team._channels: the ChannelList, a sequence of Channel data
    option,          \* Download.option: channel, least_size; thread: max_concurrent, queuing
    pool,            \* ThreadGenerator: one entry per admitted request, in admission order
    cancelled,       \* ThreadGenerator: cancellation has been signalled
    report_queue,    \* Download._report_queue
    disk,            \* the paths that exist under destination_directory
    update_pc,       \* position of the Download.update coroutine
    report,          \* the local variable report of Download.update
    taken,           \* history, per request: the types of its reports that
                     \* Download.update has dequeued, in order
    posted,          \* history: the chat_postMessage call made for the report that
                     \* update dequeued last, once it has succeeded
    trigger,         \* history, per request: the channel id of the message event
                     \* that made _callback submit it
    sizes,           \* history, per request: the downloaded_size of its reports that
                     \* Download.update has dequeued, in order
    string,          \* escape_text / unescape_text: the string handled and the results
    tracker          \* the progress tracker: its inputs and the snapshot made of them

vars == << channels, option, pool, cancelled, report_queue, disk,
           update_pc, report, taken, posted, trigger, sizes, string, tracker >>

\* ------------------------------------------------------------ the inputs
\* The team's channels as conversations.list returned them.
TeamChannels ==
    << [id |-> "C1", name |-> "dl"],
       [id |-> "C2", name |-> "files"],
       [id |-> "C3", name |-> "random"] >>

\* Channel ids a message event can carry: the team's, and one the team does not know.
MessageChannels == {"C1", "C2", "C3", "C9"}

\* Message texts: the request as the pattern wants it, the same within white space,
\* with a label in the link and with words after the link, and texts that the
\* pattern does not match: no request, words before it, no quotes, no http URL.
MessageTexts ==
    { "download \"a\" <http://u1>",
      "  download \"a\" <http://u1>\n",
      "download \"a\" <http://u1|u1>",
      "download \"a\" <http://u1> please",
      "hello",
      "please download \"a\" <http://u1>",
      "download a <http://u1>",
      "download \"a\" <ftp://u1>" }

\* least_size as configured: unset, or a size in chunks: the size of a complete
\* body, which is not below it, and one chunk more, which every body is below.
LeastSizes == {None, Some(MaxChunks), Some(MaxChunks + 1)}

\* ------------------------------------------------- team: the channel list
\* ChannelList.id_search: the first channel with this id, or None.
id_search(list, id) ==
    LET hits == SelectSeq(list, LAMBDA c : c.id = id)
    IN  IF hits = << >> THEN None ELSE Some(Head(hits))

\* ------------------------------------------------ plugin: message matching
\* DownloadOption.pattern applied to the stripped text: the groups name and url of
\* the match, or None.  The default pattern wants
\* download "<name>" <http...>; anything else does not match.
PatternMatchAnywhere(text) ==
    IF text \in { "download \"a\" <http://u1>", "download \"a\" <http://u1|u1>",
                  "download \"a\" <http://u1> please",
                  "please download \"a\" <http://u1>" }
    THEN Some([name |-> "a", url |-> "http://u1"])
    ELSE None
PatternMatch(text) ==
    IF text \in { "download \"a\" <http://u1>", "download \"a\" <http://u1|u1>",
                  "download \"a\" <http://u1> please" }
    THEN Some([name |-> "a", url |-> "http://u1"])
    ELSE None

\* str.strip(): the text without the white space at its ends.
Strip(text) ==
    IF text = "  download \"a\" <http://u1>\n" THEN "download \"a\" <http://u1>"
    ELSE text

\* destination_directory.joinpath(name): a path is <<name, n>>, n = 0 the name as
\* requested and n > 0 the n-th renamed variant of it.
JoinPath(name) == << name, 0 >>

\* ------------------------------------------------------- the report queue
\* queue.Queue(): no maxsize is given, which is maxsize 0: the queue is never full.
maxsize == 0

\* queue.Queue.full(): put blocks while it holds.
QueueFullAtOne(q) == Len(q) >= 1
QueueFull(q) == maxsize > 0 /\ Len(q) >= maxsize

\* queue.Queue.put: the report goes to the end.
QueuePutDropsWhenBusy(q, rep) == IF Len(q) >= 1 THEN q ELSE Append(q, rep)
QueuePutFirst(q, rep) == << rep >> \o q
QueuePut(q, rep) == Append(q, rep)

QueuePutAll(q, reps) ==
    LET RECURSIVE Go(_, _)
        Go(acc, rest) == IF rest = << >> THEN acc
                         ELSE Go(QueuePut(acc, Head(rest)), Tail(rest))
    IN  Go(q, reps)

\* queue.Queue.empty()
QueueEmpty(q) == Len(q) = 0

\* queue.Queue.get(): the oldest report and the queue without it.
QueueGetNewest(q) == [item |-> q[Len(q)], rest |-> SubSeq(q, 1, Len(q) - 1)]
QueueGet(q) == [item |-> Head(q), rest |-> Tail(q)]

\* ------------------------------------------------------------ the server
\* The body behind a URL, in chunks, and the Content-Length header sent for it.
BodyChunks(url) == MaxChunks
ContentLength(url) == Some(BodyChunks(url))

\* ------------------------------------------------------ engine: reports
\* download.Report for the pool entry e of request rid.  req is the request's
\* identity in the pool; the plugin never reads it.
Report(type, rid, e, saved, err) ==
    [ type            |-> type,
      req             |-> rid,
      path            |-> e.path,
      final_url       |-> e.url,
      saved_path      |-> saved,
      error           |-> err,
      downloaded_size |-> e.downloaded,
      file_size       |-> e.file_size,
      info            |-> e.info ]

StartReport(rid, e)       == Report("START", rid, e, None, None)
ProgressReport(rid, e)    == Report("PROGRESS", rid, e, None, None)
FinishReport(rid, e)      == Report("FINISH", rid, e, e.saved_path, None)
ErrorReport(rid, e, kind) == Report("ERROR", rid, e, None, Some(kind))

\* Failures before the response headers are there (resolving the URL, opening the
\* destination) and failures of a chunk read.
ConnectFailures == {"ConnectionFailure", "FilesystemError"}
ReadFailures == {"Timeout"}

\* ------------------------------------------------------ engine: the pool
Terminal == {"FINISHED", "FAILED"}

RunningCount(p) == Cardinality({i \in DOMAIN p : p[i].st = "RUNNING"})

\* The queued requests, oldest first.
PendingIds(p) ==
    SelectSeq([i \in DOMAIN p |-> i], LAMBDA i : p[i].st = "PENDING")

\* start: a worker is spawned at once when a slot is free, or whatever the load
\* when the configuration does not queue.
CanSpawnAlways(p, opt) == TRUE
CanSpawn(p, opt) == ~opt.queuing \/ RunningCount(p) < opt.max_concurrent

NewEntry(url, path, info, st) ==
    [ st |-> st, wpc |-> IF st = "RUNNING" THEN "connect" ELSE "wait",
      url |-> url, path |-> path, info |-> info,
      total |-> 0, downloaded |-> 0, file_size |-> None, saved_path |-> None,
      was_queued |-> (st = "PENDING"), hit |-> FALSE ]

\* A terminal event frees a slot: the oldest queued request is promoted into it.
NoPromote(p, opt) == p
Promote(p, opt) ==
    IF PendingIds(p) # << >> /\ RunningCount(p) < opt.max_concurrent
    THEN [p EXCEPT ![Head(PendingIds(p))].st = "RUNNING",
                   ![Head(PendingIds(p))].wpc = "connect"]
    ELSE p

\* The request leaves the live-worker mapping with its terminal event.
Retire(p, r, st, opt) ==
    Promote([p EXCEPT ![r].st = st, ![r].wpc = "done"], opt)

\* cancel: every queued request fails without starting.
CancelKeepsQueued(p) == p
CancelPool(p) ==
    [i \in DOMAIN p |->
        IF p[i].st = "PENDING" THEN [p[i] EXCEPT !.st = "FAILED", !.wpc = "done"]
        ELSE p[i]]

\* The ERROR events of the requests that cancel fails, oldest first.
CancelReports(p) ==
    LET ids == PendingIds(p)
    IN  [k \in DOMAIN ids |-> ErrorReport(ids[k], p[ids[k]], "Cancelled")]

\* The path the worker writes to: the requested one, or its first variant that
\* does not exist yet.
ResolvePath(path, d) ==
    LET n == CHOOSE k \in 0..Cardinality(d) :
                 /\ << path[1], k >> \notin d
                 /\ \A j \in 0..(k - 1) : << path[1], j >> \in d
    IN  << path[1], n >>

\* ThreadGenerator.cancel: the flag is raised, the queued requests fail and their
\* ERROR events are enqueued.  The result is the pool, the queue and the flag.
ThreadGeneratorCancel(p, q, c) ==
    [pool |-> CancelPool(p), queue |-> QueuePutAll(q, CancelReports(p)), cancelled |-> TRUE]

\* ------------------------------------------------- plugin: the consumer
\* The condition of the while loop of Download.update.
WhileAlways(q) == TRUE
WhileCondition(q) == ~QueueEmpty(q)

\* The assertions of _finish_report and _error_report.
FinishAssertsError(rep) == rep.error # None
FinishAssert(rep) == rep.saved_path # None
ErrorAssert(rep) == rep.error # None

\* _finish_report's file size check: the saved file is deleted.
TooSmallOrEqual(rep, least_size) ==
    least_size # None /\ rep.downloaded_size <= least_size[1]
TooSmall(rep, least_size) ==
    least_size # None /\ rep.downloaded_size < least_size[1]

\* The files _post_report unlinks while it builds the message of rep.
Unlinked(rep, least_size) ==
    IF rep.type = "FINISH" /\ TooSmall(rep, least_size)
    THEN {rep.saved_path[1]} ELSE {}

\* The channel argument of chat_postMessage.
PostChannelFirstOption(rep) == "C1"
PostChannel(rep) == rep.info.channel.id

\* Download.stop: the pool, the queue and the flag after it.
StopSkipsCancel(p, q, c) == [pool |-> p, queue |-> q, cancelled |-> c]
StopEffect(p, q, c) == ThreadGeneratorCancel(p, q, c)

\* ---------------------------------------------------------------- Init
\* The team's channels are loaded, the plugin is constructed with its option, no
\* message has arrived yet and the destination directory is empty.
Init ==
    /\ channels = TeamChannels
    /\ option \in [ channel        : {<< "dl", "files" >>},
                    least_size     : LeastSizes,
                    max_concurrent : 1..MaxConcurrent,
                    queuing        : BOOLEAN ]
    /\ pool = << >>
    /\ cancelled = FALSE
    /\ report_queue = << >>
    /\ disk = {}
    /\ update_pc = "idle"
    /\ report = None
    /\ taken = [r \in 1..MaxRequests |-> << >>]
    /\ posted = None
    /\ trigger = << >>
    /\ sizes = [r \in 1..MaxRequests |-> << >>]
    /\ string = None
    /\ tracker = None

\* ------------------------------------------------- engine: ThreadGenerator
\* ThreadGenerator.start: admits the request.  After cancel no request starts: it
\* fails at once with a Cancelled ERROR.
ThreadGeneratorStart(url, path, info) ==
    LET rid == Len(pool) + 1
    IN  IF cancelled
        THEN LET e == NewEntry(url, path, info, "FAILED")
             IN  /\ ~QueueFull(report_queue)
                 /\ pool' = Append(pool, [e EXCEPT !.wpc = "done"])
                 /\ report_queue' = QueuePut(report_queue, ErrorReport(rid, e, "Cancelled"))
        ELSE /\ pool' = Append(pool, NewEntry(url, path, info,
                                 IF CanSpawn(pool, option) THEN "RUNNING" ELSE "PENDING"))
             /\ UNCHANGED report_queue

\* ------------------------------------------------------ engine: a worker
\* Steps 1 to 3: resolve the URL and open the destination, either of which may
\* fail, then emit START once the headers are there.
WorkerConnect(r) ==
    /\ r \in DOMAIN pool
    /\ pool[r].st = "RUNNING" /\ pool[r].wpc = "connect"
    /\ ~QueueFull(report_queue)
    /\ \/ \E kind \in ConnectFailures :
            /\ report_queue' = QueuePut(report_queue, ErrorReport(r, pool[r], kind))
            /\ pool' = Retire(pool, r, "FAILED", option)
            /\ UNCHANGED disk
       \/ LET saved == ResolvePath(pool[r].path, disk)
              e == [pool[r] EXCEPT !.total = BodyChunks(pool[r].url),
                                   !.file_size = ContentLength(pool[r].url),
                                   !.saved_path = Some(saved),
                                   !.wpc = "check"]
          IN  /\ disk' = disk \cup {saved}
              /\ pool' = [pool EXCEPT ![r] = e]
              /\ report_queue' = QueuePut(report_queue, StartReport(r, e))
    /\ UNCHANGED << string, tracker, channels, option, cancelled, update_pc, report, taken, sizes, posted, trigger >>

\* Step 7 and step 5: between chunk reads the worker looks at the cancellation
\* flag; when the flag is down and the body is complete it commits and emits FINISH.
CheckIgnoresCancel(flag) == FALSE
CheckSeesCancel(flag) == flag

WorkerCheck(r) ==
    /\ r \in DOMAIN pool
    /\ pool[r].st = "RUNNING" /\ pool[r].wpc = "check"
    /\ IF CheckSeesCancel(cancelled)
       THEN /\ ~QueueFull(report_queue)
            /\ report_queue' = QueuePut(report_queue, ErrorReport(r, pool[r], "Cancelled"))
            /\ pool' = Retire(pool, r, "FAILED", option)
       ELSE IF pool[r].downloaded = pool[r].total
       THEN /\ ~QueueFull(report_queue)
            /\ report_queue' = QueuePut(report_queue, FinishReport(r, pool[r]))
            /\ pool' = Retire(pool, r, "FINISHED", option)
       ELSE /\ pool' = [pool EXCEPT ![r].wpc = "read"]
            /\ UNCHANGED report_queue
    /\ UNCHANGED << string, tracker, channels, option, cancelled, disk, update_pc, report, taken, sizes, posted,
                    trigger >>

\* Steps 4 and 6: one chunk read.  It fails, or it adds a chunk, and a PROGRESS
\* event is emitted when the report interval has passed.
WorkerRead(r) ==
    /\ r \in DOMAIN pool
    /\ pool[r].st = "RUNNING" /\ pool[r].wpc = "read"
    /\ \/ \E kind \in ReadFailures :
            /\ ~QueueFull(report_queue)
            /\ report_queue' = QueuePut(report_queue, ErrorReport(r, pool[r], kind))
            /\ pool' = Retire(pool, r, "FAILED", option)
       \/ \E due \in BOOLEAN :
            LET e == [pool[r] EXCEPT !.downloaded = @ + 1, !.wpc = "check"]
            IN  /\ due => ~QueueFull(report_queue)
                /\ pool' = [pool EXCEPT ![r] = e]
                /\ report_queue' = IF due THEN QueuePut(report_queue, ProgressReport(r, e))
                                   ELSE report_queue
    /\ UNCHANGED << string, tracker, channels, option, cancelled, disk, update_pc, report, taken, sizes, posted,
                    trigger >>

\* ------------------------------------------------------ plugin: Download
\* Download._callback for one message event.  has_subtype: 'subtype' in data.
Callback(data) ==
    LET channel == id_search(channels, data.channel)
    IN  /\ IF \/ data.has_subtype
              \/ channel = None
              \/ ~(\E i \in DOMAIN option.channel : option.channel[i] = channel[1].name)
           THEN UNCHANGED << pool, report_queue, trigger >>
           ELSE LET match == PatternMatch(Strip(data.text))
                IN  IF match = None
                    THEN UNCHANGED << pool, report_queue, trigger >>
                    ELSE /\ Len(pool) < MaxRequests
                         /\ ThreadGeneratorStart(match[1].url,
                                                 JoinPath(match[1].name),
                                                 [channel |-> channel[1]])
                         /\ trigger' = Append(trigger, data.channel)
        /\ UNCHANGED << string, tracker, channels, option, cancelled, disk, update_pc, report, taken, sizes, posted >>

\* Download.stop.  A worker whose transfer is active at the call (headers received,
\* no terminal event yet) is marked hit.
Stop ==
    LET after == StopEffect(pool, report_queue, cancelled)
    IN  /\ after.queue # report_queue => ~QueueFull(report_queue)
        /\ pool' = [i \in DOMAIN pool |->
                       IF pool[i].st = "RUNNING" /\ pool[i].wpc \in {"check", "read"}
                       THEN [after.pool[i] EXCEPT !.hit = TRUE]
                       ELSE after.pool[i]]
        /\ report_queue' = after.queue
        /\ cancelled' = after.cancelled
        /\ UNCHANGED << string, tracker, channels, option, disk, update_pc, report, taken, sizes, posted, trigger >>

\* while not self._report_queue.empty(): the test that a call of update starts
\* with ("idle") and that follows each post ("while").
UpdateWhile ==
    /\ update_pc \in {"idle", "while"}
    /\ update_pc' = IF WhileCondition(report_queue) THEN "get" ELSE "idle"
    /\ UNCHANGED << string, tracker, channels, option, pool, cancelled, report_queue, disk, report,
                    taken, sizes, posted, trigger >>

\* report = self._report_queue.get(): blocks while the queue is empty.
UpdateGet ==
    /\ update_pc = "get"
    /\ ~QueueEmpty(report_queue)
    /\ report' = Some(QueueGet(report_queue).item)
    /\ report_queue' = QueueGet(report_queue).rest
    /\ taken' = [taken EXCEPT ![QueueGet(report_queue).item.req] =
                                   Append(@, QueueGet(report_queue).item.type)]
    /\ sizes' = [sizes EXCEPT ![QueueGet(report_queue).item.req] =
                                   Append(@, QueueGet(report_queue).item.downloaded_size)]
    /\ update_pc' = "post"
    /\ posted' = None
    /\ UNCHANGED << string, tracker, channels, option, pool, cancelled, disk, trigger >>

\* await _post_report(client, self.option, report): the message is built, which
\* for a FINISH below least_size unlinks the saved file, and then posted.  A failed
\* assertion, unlink or post raises out of update, and the report is gone.
PostReport ==
    /\ update_pc = "post"
    /\ LET rep == report[1]
           asserted == /\ rep.type = "FINISH" => FinishAssert(rep)
                       /\ rep.type = "ERROR" => ErrorAssert(rep)
           gone == Unlinked(rep, option.least_size)
       IN  IF ~asserted
           THEN /\ update_pc' = "AssertionError"
                /\ UNCHANGED << disk, posted >>
           ELSE \/ /\ gone # {}
                   /\ update_pc' = "idle"
                   /\ UNCHANGED << disk, posted >>
                \/ /\ gone \subseteq disk
                   /\ disk' = disk \ gone
                   /\ \/ /\ posted' = Some([channel |-> PostChannel(rep),
                                          type |-> rep.type,
                                          req |-> rep.req])
                         /\ update_pc' = "while"
                      \/ /\ update_pc' = "idle"
                         /\ UNCHANGED posted
    /\ report' = None
    /\ UNCHANGED << string, tracker, channels, option, pool, cancelled, report_queue, taken, sizes, trigger >>

\* ---------------------------------------------------------------- Next
\* The message events: the matching text in every channel, and in the first
\* channel also the other texts and messages with a subtype.
MessageData ==
    [channel : MessageChannels, has_subtype : {FALSE}, text : {"download \"a\" <http://u1>"}]
    \cup [channel : {"C1"}, has_subtype : BOOLEAN, text : MessageTexts]

WorkerNext ==
    \E r \in 1..MaxRequests : WorkerConnect(r) \/ WorkerCheck(r) \/ WorkerRead(r)

Next ==
    \/ \E data \in MessageData : Callback(data)
    \/ Stop
    \/ WorkerNext
    \/ UpdateWhile
    \/ UpdateGet
    \/ PostReport

Spec == Init /\ [][Next]_vars

\* ------------------------------------------ engine: the progress tracker
\* The variables of the download plugin and its engine.
plugin_vars == << channels, option, pool, cancelled, report_queue, disk,
                 update_pc, report, taken, posted, trigger, sizes >>

\* Download as constructed, with nothing submitted; the configuration is fixed.
DownloadConstructed ==
    /\ option = [ channel |-> << "dl", "files" >>, least_size |-> None,
                  max_concurrent |-> 1, queuing |-> TRUE ]
    /\ pool = << >>
    /\ cancelled = FALSE
    /\ report_queue = << >>
    /\ disk = {}
    /\ update_pc = "idle"
    /\ report = None
    /\ taken = [r \in 1..MaxRequests |-> << >>]
    /\ posted = None
    /\ trigger = << >>
    /\ sizes = [r \in 1..MaxRequests |-> << >>]

\* The plugin as constructed, with nothing submitted; the configuration is fixed.
PluginConstructed == channels = TeamChannels /\ DownloadConstructed

\* A fraction n / d, d > 0, in lowest terms, as << numerator, denominator >>.
RECURSIVE Gcd(_, _)
Gcd(a, b) == IF b = 0 THEN a ELSE Gcd(b, a % b)

Ratio(n, d) == << n \div Gcd(n, d), d \div Gcd(n, d) >>

\* The tracker's inputs: the bytes so far, the total when the server sent a
\* Content-Length (an empty body has the total 0), the speed over the recent
\* window and the time since the start, in whole units.
TrackerInputs ==
    { in \in [ bytes_so_far : 0..MaxBytes,
               total_bytes  : {None} \cup {Some(t) : t \in 0..MaxBytes},
               speed        : 0..1,
               elapsed_time : 0..1 ] :
         in.total_bytes # None => in.bytes_so_far <= in.total_bytes[1] }

\* progress_rate = bytes_so_far / total_bytes when total_bytes is known, absent
\* otherwise.  The tracker must not divide by zero: of a total of 0 it makes no
\* quotient, and gives absent or an end of the range [0, 1].
ProgressRate(bytes_so_far, total_bytes) ==
    IF total_bytes = None THEN {None}
    ELSE IF total_bytes[1] = 0 THEN {None, Some(Ratio(0, 1)), Some(Ratio(1, 1))}
    ELSE {Some(Ratio(bytes_so_far, total_bytes[1]))}

\* remaining_time = (total_bytes - bytes_so_far) / speed when total_bytes is known
\* and speed > 0, absent otherwise.
RemainingTime(bytes_so_far, total_bytes, speed) ==
    IF total_bytes # None /\ speed > 0
    THEN Some(Ratio(total_bytes[1] - bytes_so_far, speed))
    ELSE None

\* The ProgressSnapshots the tracker can make of its inputs.
Snapshots(in) ==
    { [ downloaded_size |-> in.bytes_so_far,
        file_size       |-> in.total_bytes,
        speed           |-> in.speed,
        elapsed_time    |-> in.elapsed_time,
        remaining_time  |-> RemainingTime(in.bytes_so_far, in.total_bytes, in.speed),
        progress_rate   |-> rate ] : rate \in ProgressRate(in.bytes_so_far, in.total_bytes) }

\* ------------------------------------------- plugin: _progress_message
\* f'{progress_rate:.2%}': the rate in hundredths of a percent, rounded.
Percent(rate) == (2 * 10000 * rate[1] + rate[2]) \div (2 * rate[2])

\* The percentage of the message: the formatted rate, or the placeholder when
\* progress_rate is None.
RateTextAlwaysPlaceholder(progress_rate) == << "--.--%%" >>
RateText(progress_rate) ==
    IF progress_rate # None THEN << "percent", Percent(progress_rate[1]) >>
    ELSE << "--.--%%" >>

\* _progress_message: the parts of the message, in order.
ProgressMessageParts(progress) ==
    << << "progress" >> >>
    \o (IF progress.file_size # None
         THEN << << progress.downloaded_size, progress.file_size[1],
                    RateText(progress.progress_rate) >> >>
         ELSE << << progress.downloaded_size >> >>)
    \o << << progress.speed, progress.elapsed_time >> >>
    \o (IF progress.remaining_time # None
         THEN << << "remaining", progress.remaining_time[1] >> >>
         ELSE << >>)

\* The tracker makes the snapshot of an event.
TrackerSnapshot ==
    /\ tracker # None /\ tracker.snapshot = None
    /\ \E sn \in Snapshots(tracker.in) : tracker' = [tracker EXCEPT !.snapshot = Some(sn)]
    /\ UNCHANGED << plugin_vars, string >>

\* The plugin renders the snapshot of a PROGRESS event.
ProgressMessage ==
    /\ tracker # None /\ tracker.snapshot # None /\ tracker.message = None
    /\ tracker' = [tracker EXCEPT !.message = Some(ProgressMessageParts(tracker.snapshot[1]))]
    /\ UNCHANGED << plugin_vars, string >>

InitTracker ==
    /\ PluginConstructed
    /\ string = None
    /\ tracker \in [ in : TrackerInputs, snapshot : {None}, message : {None} ]

NextTracker ==
    \/ TrackerSnapshot
    \/ ProgressMessage

SpecTracker == InitTracker /\ [][NextTracker]_vars

\* ------------------------------------------- action: escaping message text
\* A string is the sequence of its characters.
Alphabet == {"&", "<", ">", ";", "a", "g", "l", "m", "p", "t"}

Strings == UNION {[1..n -> Alphabet] : n \in 0..MaxLen}

\* str.replace(old, new): every occurrence of old, found from the left and not
\* overlapping, is replaced by new.
RECURSIVE Replace(_, _, _)
Replace(str, old, new) ==
    IF Len(str) < Len(old) THEN str
    ELSE IF SubSeq(str, 1, Len(old)) = old
         THEN new \o Replace(SubSeq(str, Len(old) + 1, Len(str)), old, new)
         ELSE << Head(str) >> \o Replace(Tail(str), old, new)

Amp == << "&", "a", "m", "p", ";" >>
Gt == << "&", "g", "t", ";" >>
Lt == << "&", "l", "t", ";" >>

escape_text(str) ==
    Replace(Replace(Replace(str, << "&" >>, Amp), << ">" >>, Gt), << "<" >>, Lt)

unescape_text(str) ==
    Replace(Replace(Replace(str, Amp, << "&" >>), Gt, << ">" >>), Lt, << "<" >>)

\* escape_text is applied to the string.
EscapeText ==
    /\ string # None /\ string.escaped = None
    /\ string' = [string EXCEPT !.escaped = Some(escape_text(string.s))]
    /\ UNCHANGED << plugin_vars, tracker >>

\* unescape_text is applied to the escaped string.
UnescapeText ==
    /\ string # None /\ string.escaped # None /\ string.unescaped = None
    /\ string' = [string EXCEPT !.unescaped = Some(unescape_text(string.escaped[1]))]
    /\ UNCHANGED << plugin_vars, tracker >>

InitText ==
    /\ PluginConstructed
    /\ tracker = None
    /\ string \in [ s : Strings, escaped : {None}, unescaped : {None} ]

NextText ==
    \/ EscapeText
    \/ UnescapeText

SpecText == InitText /\ [][NextText]_vars

\* ------------------------------------------------- team: ChannelList
\* The data of a channel as the API sends it, a dict: with an id and a name, or
\* without the key 'id'.  Every call is given a dict of its own.
ChannelIds == {"C1", "C2", "C3"}
ChannelNames == {"dl", "files", "random"}
ChannelData == [id : ChannelIds, name : ChannelNames] \cup [name : ChannelNames]

\* The place of the entry that id_search finds: the first with this id.
FirstIndex(list, id) ==
    CHOOSE i \in DOMAIN list :
        /\ list[i].id = id
        /\ \A j \in 1..(i - 1) : list[j].id # id

\* ChannelList.update: the entry found takes the data (Channel.update clears its
\* dict and fills it from data); an id not found is added at the end; data
\* without 'id' is ignored.
ChannelListUpdateAppends(list, data) ==
    IF "id" \in DOMAIN data THEN Append(list, data) ELSE list
ChannelListUpdate(list, data) ==
    IF "id" \in DOMAIN data
    THEN IF id_search(list, data.id) # None
         THEN [list EXCEPT ![FirstIndex(list, data.id)] = data]
         ELSE Append(list, data)
    ELSE list

\* ChannelList.remove: the entry found is taken out of the list.
ChannelListRemove(list, id) ==
    IF id_search(list, id) # None
    THEN SubSeq(list, 1, FirstIndex(list, id) - 1)
         \o SubSeq(list, FirstIndex(list, id) + 1, Len(list))
    ELSE list

\* team.channels.update(data)
TeamUpdate(data) ==
    /\ Len(channels) <= Cardinality(ChannelIds)
    /\ channels' = ChannelListUpdate(channels, data)
    /\ UNCHANGED << option, pool, cancelled, report_queue, disk, update_pc, report,
                    taken, posted, trigger, sizes, string, tracker >>

\* team.channels.remove(id)
TeamRemove(id) ==
    /\ channels' = ChannelListRemove(channels, id)
    /\ UNCHANGED << option, pool, cancelled, report_queue, disk, update_pc, report,
                    taken, posted, trigger, sizes, string, tracker >>

\* Team.__init__: the list starts empty.
InitTeam ==
    /\ channels = << >>
    /\ DownloadConstructed
    /\ string = None
    /\ tracker = None

NextTeam ==
    \/ \E data \in ChannelData : TeamUpdate(data)
    \/ \E id \in ChannelIds : TeamRemove(id)

SpecTeam == InitTeam /\ [][NextTeam]_vars

\* ------------------------------------------------ the claims: vocabulary
TerminalTypes == {"FINISH", "ERROR"}

\* The reports the plugin holds: those in the queue and the one being posted.
Held == {report_queue[i] : i \in DOMAIN report_queue} \cup {report[i] : i \in DOMAIN report}

\* The types of the reports of request r that are still in the queue, in order.
QueuedTypes(r) ==
    LET mine == SelectSeq(report_queue, LAMBDA rep : rep.req = r)
    IN  [i \in DOMAIN mine |-> mine[i].type]

\* Every event of request r on the report channel so far, in order.
Emitted(r) == taken[r] \o QueuedTypes(r)

Count(seq, types) == Cardinality({i \in DOMAIN seq : seq[i] \in types})

C2_AtMostMaxConcurrent == RunningCount(pool) <= option.max_concurrent

\* C2 amended: when the configuration queues excess requests, the number of running
\* workers never exceeds max_concurrent.
C2_AtMostMaxConcurrentWhenQueuing ==
    option.queuing => RunningCount(pool) <= option.max_concurrent

\* All slots are taken and a request waits in the queue.
C2_Witness ==
    /\ option.queuing
    /\ RunningCount(pool) = option.max_concurrent
    /\ PendingIds(pool) # << >>

InOrder(seq) ==
    \A i \in DOMAIN seq :
        /\ seq[i] = "START" => i = 1
        /\ seq[i] = "PROGRESS" => i > 1 /\ seq[1] = "START"
        /\ seq[i] \in TerminalTypes => i = Len(seq)

\* C4: the reports of one request are dequeued in emission order, START before any
\* PROGRESS, the terminal event last and nothing after it, and each post is the
\* post of the report dequeued last.
C4_DequeuedInOrder ==
    /\ \A r \in DOMAIN taken : InOrder(taken[r])
    /\ \A r \in DOMAIN taken :
          Count(taken[r], TerminalTypes) = 1 => QueuedTypes(r) = << >>
    /\ posted # None =>
          /\ taken[posted[1].req] # << >>
          /\ posted[1].type = taken[posted[1].req][Len(taken[posted[1].req])]

\* A request's START, PROGRESS and FINISH have been dequeued, with reports of the
\* other request dequeued as well.
C4_Witness ==
    \E r1, r2 \in DOMAIN taken :
        /\ r1 # r2
        /\ taken[r1] = << "START", "PROGRESS", "FINISH" >>
        /\ taken[r2] # << >>
        /\ pool[r2].st = "RUNNING"

\* ------------------------------------------------------------------ C5
\* C5: every get of Download.update finds a report in the queue, so update never
\* blocks in get.
C5_GetNeverBlocks == update_pc = "get" => ~QueueEmpty(report_queue)

\* update is about to get again, after a post, while a worker is still running.
C5_Witness ==
    /\ update_pc = "get"
    /\ \E r \in DOMAIN taken : taken[r] # << >>
    /\ RunningCount(pool) >= 1

\* ------------------------------------------------------------------ C6
\* C6: a request that is queued when cancel is called goes to FAILED in that very
\* step; once cancel has been called no request enters RUNNING; and stop called
\* again leaves the pool, the queue and the flag as they are.
C6_Step ==
    /\ \A r \in DOMAIN pool :
          (pool[r].st = "PENDING" /\ cancelled') => pool'[r].st = "FAILED"
    /\ cancelled =>
          \A r \in DOMAIN pool' :
              pool'[r].st = "RUNNING" => (r \in DOMAIN pool /\ pool[r].st = "RUNNING")
    /\ cancelled =>
          StopEffect(pool, report_queue, cancelled)
              = [pool |-> pool, queue |-> report_queue, cancelled |-> cancelled]

C7_InfoCarried ==
    /\ \A rep \in Held : rep.info.channel.id = trigger[rep.req]
    /\ posted # None => posted[1].channel = trigger[posted[1].req]

\* A message was posted to the second channel for a request triggered there, while
\* the other request, triggered in the first channel, has had reports dequeued too.
C7_Witness ==
    /\ posted # None
    /\ posted[1].channel = "C2"
    /\ \E r \in DOMAIN trigger : trigger[r] = "C1" /\ taken[r] # << >>

\* ------------------------------------------------------------------ C8
\* C8: in every report the plugin holds saved_path is set exactly on FINISH and
\* error exactly on ERROR, and no assertion of _finish_report or _error_report
\* has failed.
C8_ReportShape ==
    /\ \A rep \in Held :
          /\ rep.saved_path # None <=> rep.type = "FINISH"
          /\ rep.error # None <=> rep.type = "ERROR"
    /\ update_pc # "AssertionError"

\* A FINISH has been posted after an ERROR was handled.
C8_Witness ==
    /\ posted # None
    /\ posted[1].type = "FINISH"
    /\ \E r \in DOMAIN taken : Count(taken[r], {"ERROR"}) = 1

\* ------------------------------------------------------------------ C9
\* C9: a step removes a file only when update posts a FINISH with least_size set
\* and downloaded_size below it, and then it removes exactly that report's
\* saved_path; the partial file of a failed or cancelled transfer is on disk.
C9_Step ==
    /\ disk \ disk' # {} =>
          /\ update_pc = "post"
          /\ report[1].type = "FINISH"
          /\ option.least_size # None
          /\ report[1].downloaded_size < option.least_size[1]
          /\ disk \ disk' = {report[1].saved_path[1]}
    /\ \A r \in DOMAIN pool :
          (pool[r].st = "FAILED" /\ pool[r].saved_path # None) =>
              pool[r].saved_path[1] \in disk

C9_DeletesOnlySmallFinish == [][C9_Step]_vars

\* The file of a finished request has been deleted while the partial file of a
\* failed one is still there.
C9_Witness ==
    \E r1, r2 \in DOMAIN pool :
        /\ pool[r1].st = "FINISHED" /\ pool[r1].saved_path[1] \notin disk
        /\ pool[r2].st = "FAILED" /\ pool[r2].saved_path # None
        /\ pool[r2].saved_path[1] \in disk

\* ----------------------------------------------------------------- C10
\* C10: while some request is not terminal a worker step is enabled: no worker
\* waits for another worker, for the pool or for the consumer, and a queued
\* request has a running worker ahead of it.
C10_NoDeadlock ==
    (\E r \in DOMAIN pool : pool[r].st \notin Terminal) => ENABLED WorkerNext

\* A request waits in the queue while two reports are queued and update is idle.
C10_Witness ==
    /\ \E r \in DOMAIN pool : pool[r].st = "PENDING"
    /\ Len(report_queue) >= 2
    /\ update_pc = "idle"

\* ----------------------------------------------------------------- C11
\* The downloaded_size of the reports of request r that are still in the queue,
\* in order, and of every event of r on the report channel so far.
QueuedSizes(r) ==
    LET mine == SelectSeq(report_queue, LAMBDA rep : rep.req = r)
    IN  [i \in DOMAIN mine |-> mine[i].downloaded_size]

EmittedSizes(r) == sizes[r] \o QueuedSizes(r)

PlaceholderShown ==
    /\ tracker.message # None
    /\ Len(tracker.message[1][2]) = 3
    /\ tracker.message[1][2][3][1] = "--.--%%"

C13_EveryDequeuedPosted ==
    /\ (update_pc # "post" /\ \E r \in DOMAIN taken : taken[r] # << >>) => posted # None
    /\ update_pc = "get" => report = None

\* ----------------------------------------------------------------- C14
\* C14: unescape_text(escape_text(s)) = s for every string s over '&', '<', '>',
\* ';' and letters.
C14_RoundTrip ==
    (string # None /\ string.unescaped # None) => string.unescaped[1] = string.s

\* ----------------------------------------------------------------- C15
\* The message events for which C15 says a request is submitted: no subtype, the
\* id of a channel of the team whose name is configured, and a text that, without
\* the white space at its ends, begins with download "<name>" <http URL>.
Submits(data) ==
    /\ ~data.has_subtype
    /\ \E i \in DOMAIN channels :
          /\ channels[i].id = data.channel
          /\ \A j \in 1..(i - 1) : channels[j].id # data.channel
          /\ \E k \in DOMAIN option.channel : option.channel[k] = channels[i].name
    /\ data.text \in { "download \"a\" <http://u1>", "  download \"a\" <http://u1>\n",
                       "download \"a\" <http://u1|u1>", "download \"a\" <http://u1> please" }

\* C15, which events: _callback changes the state for exactly the message events
\* that meet the four conditions (while the model admits requests); for every
\* other event it changes nothing.
C15_SubmitsIffMatch ==
    \A data \in MessageData :
        (ENABLED << Callback(data) >>_vars) <=> (Submits(data) /\ Len(pool) < MaxRequests)

\* C15, what is submitted: a step that submits adds exactly one request, with the
\* url and destination_directory/name of the pattern's groups and the channel of
\* the message as info, and a request enters the pool in no other step.
C15_Step ==
    /\ trigger' # trigger =>
          /\ Len(pool') = Len(pool) + 1 /\ Len(trigger') = Len(trigger) + 1
          /\ SubSeq(pool', 1, Len(pool)) = pool
          /\ pool'[Len(pool')].url = "http://u1"
          /\ pool'[Len(pool')].path = << "a", 0 >>
          /\ pool'[Len(pool')].info.channel.id = trigger'[Len(trigger')]
          /\ \E i \in DOMAIN channels : pool'[Len(pool')].info.channel = channels[i]
          /\ UNCHANGED << channels, option, cancelled, disk, update_pc, report, taken,
                          sizes, posted >>
    /\ Len(pool') # Len(pool) => trigger' # trigger

\* C15: _callback submits exactly one request, made of the pattern's groups and
\* the message's channel, if and only if the message has no subtype, its channel
\* is known, the channel's name is configured and the stripped text matches; in
\* every other case it submits none and changes no state.
C15_CallbackSubmits == []C15_SubmitsIffMatch /\ [][C15_Step]_vars

\* Two requests have been submitted: the first in the first channel, which has
\* failed, and the second in the second channel.
C15_Witness ==
    /\ Len(pool) = 2
    /\ trigger = << "C1", "C2" >>
    /\ pool[1].st = "FAILED"
    /\ pool[2].info.channel.name = "files"

\* ----------------------------------------------------------------- C16
HasId(list, id) == \E i \in DOMAIN list : list[i].id = id

\* C16: after every update and remove no two entries of the list share an id;
\* update with an id that is present puts the data in that entry's place and
\* leaves the others and the length as they are; update with a new id appends one
\* entry; update without 'id' and remove of an absent id change nothing; remove
\* of a present id takes that entry out.
C16_Step ==
    /\ \A i, j \in DOMAIN channels' : channels'[i].id = channels'[j].id => i = j
    /\ \A data \in ChannelData :
          TeamUpdate(data) =>
              IF "id" \notin DOMAIN data THEN channels' = channels
              ELSE IF HasId(channels, data.id)
              THEN /\ Len(channels') = Len(channels)
                   /\ \A i \in DOMAIN channels :
                         channels'[i] = IF channels[i].id = data.id THEN data
                                        ELSE channels[i]
              ELSE channels' = Append(channels, data)
    /\ \A id \in ChannelIds :
          TeamRemove(id) =>
              IF ~HasId(channels, id) THEN channels' = channels
              ELSE /\ Len(channels') = Len(channels) - 1
                   /\ ~HasId(channels', id)
                   /\ \A i \in DOMAIN channels :
                         channels[i].id # id =>
                             \E j \in DOMAIN channels' : channels'[j] = channels[i]

\* The operations that C16 says change the list do change it, and the others do
\* not: an update changes the list unless its data has no 'id' or is what the
\* entry holds already, a remove changes it exactly when the id is present.
C16_Acts ==
    /\ \A data \in ChannelData :
          (ENABLED << TeamUpdate(data) >>_vars)
              <=> /\ "id" \in DOMAIN data
                  /\ \A i \in DOMAIN channels : channels[i] # data
    /\ \A id \in ChannelIds :
          (ENABLED << TeamRemove(id) >>_vars) <=> HasId(channels, id)

====
